---- MODULE Spec2Model ----
(***************************************************************************)
(* The note service of kaicloudnote: four request handlers over two        *)
(* storage backends.                                                       *)
(*   "worker"   src/functions/worker.js        KV, auth inside each handler*)
(*   "part000"  src/unnamed/part_000           KV, auth first in fetch     *)
(*   "pages"    src/functions/api/notes.js:16  D1, onRequest(context)      *)
(*   "d1worker" src/functions/api/notes.js:126 D1, handleRequest           *)
(* Strings that the code concatenates or matches (header values, paths,    *)
(* KV keys) are sequences of one-character strings.  Every await on the    *)
(* backend is a separate step, so requests interleave exactly there.       *)
(* worker.js:156 ends with a stray identifier after the closing brace of   *)
(* onRequest; the model describes onRequest as written in lines 125-156.   *)
(***************************************************************************)
EXTENDS Integers, Sequences, FiniteSets, TLC

VARIABLES
    variant,   \* which of the four handlers serves the requests
    kv,        \* NOTES_KV: key -> stored JSON text, NoNote where absent
    db,        \* NOTES_DB: the rows of table notes
    now,       \* the last value Date.now() returned
    owner,     \* UUID -> header of the Create that drew it (NullHeader: not drawn)
    reqs,      \* the requests in flight, each suspended on a backend call
    last       \* <<the request the step just taken completed>>, else <<>>

vars == <<variant, kv, db, now, owner, reqs, last>>

\* ---------------------------------------------------------------- bounds
MaxReq == 2      \* requests in flight at once
MaxTime == 2     \* largest value Date.now() returns
NumIds == 1      \* UUIDs crypto.randomUUID() can draw

IdLen == 2       \* characters of a note id: the {36} of the item-path pattern, shortened

Variants == {"worker", "part000", "pages", "d1worker"}
KvVariants == {"worker", "part000"}

\* ------------------------------------------------------------ characters
Lower == {"a","b","c","d","e","f","g","h","i","j","k","l","m",
          "n","o","p","q","r","s","t","u","v","w","x","y","z"}
Upper == {"A","B","C","D","E","F","G","H","I","J","K","L","M",
          "N","O","P","Q","R","S","T","U","V","W","X","Y","Z"}
Digit == {"0","1","2","3","4","5","6","7","8","9"}
HexDash == {"a","b","c","d","e","f","A","B","C","D","E","F"} \cup Digit \cup {"-"}
AlnumDash == Lower \cup Upper \cup Digit \cup {"-"}

startsWith(s, p) == Len(p) <= Len(s) /\ SubSeq(s, 1, Len(p)) = p
After(s, p) == SubSeq(s, Len(p) + 1, Len(s))
AllIn(s, C) == \A i \in 1..Len(s) : s[i] \in C

\* ------------------------------------------------------------- JS values
Undef == [t |-> "undefined", v |-> ""]
Str(s) == [t |-> "string", v |-> s]
Num(s) == [t |-> "number", v |-> s]
typeof(x) == x.t
\* x || d : the empty string and undefined are falsy
OrElse(x, d) == IF x = Undef \/ x = Str("") THEN d ELSE x
\* an update that keeps the stored value whatever the body holds
KeepOld(x, d) == d
\* x ?? d
Coalesce(x, d) == IF x = Undef THEN d ELSE x
\* the placeholder title literal of notes.js:56, written in ASCII
Placeholder == Str("(untitled)")

\* request.headers.get(name): null when the header is absent
NullHeader == <<"null">>
\* a check that tests the header against null only
TruthyNotNull(h) == h # NullHeader
\* !userId is false: the header is neither null nor the empty string
Truthy(h) == h # NullHeader /\ h # <<>>

\* --------------------------------------------------------------- inputs
HexOf(n) == IF n = 1 THEN "c" ELSE IF n = 2 THEN "d" ELSE IF n = 3 THEN "e" ELSE "f"
\* crypto.randomUUID(): IdLen hexadecimal digits
Uuid(n) == [i \in 1..IdLen |-> HexOf(n)]
UUIDs == {Uuid(n) : n \in 1..NumIds}

ScopeA == <<"a">>
ScopeAB == <<"a", ":", "b">>
Scopes == {ScopeA, ScopeAB}
Headers == {NullHeader, <<>>} \cup Scopes

ApiNotes == <<"/","a","p","i","/","n","o","t","e","s">>
ApiPrefix == <<"/","a","p","i","/">>
Slash == <<"/">>
ItemPath(id) == ApiNotes \o Slash \o id
Paths == {ApiNotes, ApiPrefix \o <<"x">>, <<"/", "x">>}
         \cup {ItemPath(id) : id \in UUIDs}
Methods == {"GET", "POST", "PUT", "DELETE", "PATCH"}

Contents == {Undef, Num("42"), Str("x"), Str("y")}
Malformed == [ok |-> FALSE, title |-> Undef, content |-> Undef]
\* every content without a title, one body with a title, one that is not JSON
Bodies == {[ok |-> TRUE, title |-> Undef, content |-> c] : c \in Contents}
          \cup {[ok |-> TRUE, title |-> Str("T"), content |-> Str("x")], Malformed}
NoBody == [ok |-> TRUE, title |-> Undef, content |-> Undef]
ErrTexts == {"D1_ERROR"}

\* ------------------------------------------------------------ responses
Response(status, kind, msg, notes) ==
    [status |-> status, kind |-> kind, msg |-> msg, notes |-> notes]
\* worker.js / part_000: errorResponse(message, status) -> {error: message}
KvError(m, status) == Response(status, "error", <<m>>, <<>>)
\* notes.js: errorResponse(message, status) -> {message}
SqlError(parts, status) == Response(status, "message", parts, <<>>)
\* handleRequest returns undefined: the request is left to the static layer
PassThrough == Response(0, "none", <<>>, <<>>)
\* an exception that no try/catch of the handler intercepts
Unhandled(text) == Response(0, "unhandled", <<text>>, <<>>)

\* --------------------------------------------------------------- routing
\* a key that leaves the scope out
KeyOfNoScope(userId, noteId) == <<"n","o","t","e","s",":">> \o noteId
\* `notes:${userId}:${noteId}`
KeyOf(userId, noteId) == <<"n","o","t","e","s",":">> \o userId \o <<":">> \o noteId
\* { prefix: `notes:${userId}:` }
PrefixOf(userId) == <<"n","o","t","e","s",":">> \o userId \o <<":">>

\* path.match(/^\/api\/notes\/([a-fA-F0-9-]{36})$/)
UuidMatch(path) ==
    /\ startsWith(path, ApiNotes \o Slash)
    /\ Len(After(path, ApiNotes \o Slash)) = IdLen
    /\ AllIn(After(path, ApiNotes \o Slash), HexDash)
UuidGroup(path) == After(path, ApiNotes \o Slash)

\* pathname.match(/^\/api\/notes\/?([a-zA-Z0-9-]+)?$/)
D1Rest(path) ==
    LET r == After(path, ApiNotes)
    IN IF Len(r) > 0 /\ r[1] = "/" THEN Tail(r) ELSE r
D1Match(path) == startsWith(path, ApiNotes) /\ AllIn(D1Rest(path), AlnumDash)
\* match[1] || null ; <<>> stands for null
D1Group(path) == D1Rest(path)

\* params.notes[0] of the catch-all route: the first segment after /api/notes
ParamsNote(path) ==
    LET r == IF startsWith(path, ApiNotes \o Slash)
             THEN After(path, ApiNotes \o Slash) ELSE <<>>
    IN r

\* every key a request of the model can name; NoNote marks an absent key
NoNote == [id |-> <<>>, content |-> Undef, createdAt |-> 0, updatedAt |-> 0]
AllKeys == {KeyOf(s, i) : s \in Headers \ {NullHeader}, i \in UUIDs}

\* ------------------------------------------------------------ the store
\* a WHERE clause that leaves the owner out
MatchingIdOnly(noteId, userId) == {row \in db : row.id = noteId}
\* WHERE id = ? AND user_session_id = ?
Matching(noteId, userId) ==
    {row \in db : row.id = noteId /\ row.user_session_id = userId}
\* the record stored for (scope, id): the KV value, or the matching rows
Stored(s, id) ==
    IF variant \in KvVariants
    THEN IF KeyOf(s, id) \in DOMAIN kv THEN {kv[KeyOf(s, id)]} \ {NoNote} ELSE {}
    ELSE Matching(id, s)
Exists(s, id) == Stored(s, id) # {}

\* ------------------------------------------------------- request records
\* A request in flight.  keys, acc: the list handler's loop; existing: the
\* note the update handler is about to put; alone: no request has overlapped
\* this one; touched: it has issued a backend call; after: <<what it
\* remembers of the request completed just before it arrived>> if that one
\* succeeded with no request overlapping it, else <<>>; existed: the store
\* held a record for (userId, noteId) when the request arrived.
Request(pc, method, path, hdr, noteId, body, alone, after) ==
    [pc |-> pc, method |-> method, path |-> path, userId |-> hdr,
     noteId |-> noteId, body |-> body, keys |-> <<>>, acc |-> <<>>,
     existing |-> <<>>, alone |-> alone, touched |-> FALSE, after |-> after,
     existed |-> Exists(hdr, noteId)]

Summary(r, resp, fault) ==
    [method |-> r.method, path |-> r.path, userId |-> r.userId,
     noteId |-> r.noteId, body |-> r.body, resp |-> resp,
     alone |-> r.alone, touched |-> r.touched, fault |-> fault, after |-> r.after,
     existed |-> r.existed]

Digest(s) == [method |-> s.method, userId |-> s.userId, noteId |-> s.noteId,
              status |-> s.resp.status, notes |-> s.resp.notes,
              existed |-> s.existed]

Remove(q, i) == [k \in 1..(Len(q) - 1) |-> IF k < i THEN q[k] ELSE q[k + 1]]

\* request i ends with response resp
Finish(i, r, resp, fault) ==
    /\ reqs' = Remove(reqs, i)
    /\ last' = <<Summary(r, resp, fault)>>

\* request i suspends on its next backend call
Suspend(i, r) == reqs' = [reqs EXCEPT ![i] = r] /\ last' = <<>>

Init ==
    /\ variant \in Variants
    /\ kv = [k \in AllKeys |-> NoNote]
    /\ db = {}
    /\ now = 1
    /\ owner = [u \in UUIDs |-> NullHeader]
    /\ reqs = <<>>
    /\ last = <<>>

\* ----------------------------------------------- synchronous dispatching
\* What a handler does before its first backend call: either it answers at
\* once (pc = "done") or it suspends at the backend call named by pc.
Answer(resp) == [pc |-> "done", noteId |-> <<>>, resp |-> resp]
Goto(pc, noteId) == [pc |-> pc, noteId |-> noteId, resp |-> PassThrough]

\* worker.js handleCreateNote / part_000 handleCreateNote, after the auth check
KvCreateEntry(body) ==
    IF ~body.ok THEN Answer(Unhandled("SyntaxError"))
    ELSE IF typeof(body.content) # "string" THEN Answer(KvError("content must be a string", 400))
    ELSE Goto("kvCreatePut", <<>>)

\* worker.js onRequest: each handler checks the header itself
DispatchWorker(method, path, hdr, body) ==
    IF path = ApiNotes /\ method = "GET" THEN
        IF ~Truthy(hdr) THEN Answer(KvError("missing X-User-Token", 401))
        ELSE Goto("kvList", <<>>)
    ELSE IF path = ApiNotes /\ method = "POST" THEN
        IF ~Truthy(hdr) THEN Answer(KvError("missing credential", 401))
        ELSE KvCreateEntry(body)
    ELSE IF UuidMatch(path) /\ method = "PUT" THEN
        IF ~Truthy(hdr) THEN Answer(KvError("missing credential", 401))
        ELSE Goto("kvUpdateGet", UuidGroup(path))
    ELSE IF UuidMatch(path) /\ method = "DELETE" THEN
        IF ~Truthy(hdr) THEN Answer(KvError("missing credential", 401))
        ELSE Goto("kvDeleteGet", UuidGroup(path))
    ELSE Answer(KvError("no such API route or method not allowed", 404))

\* part_000 fetch: the header is checked before routing
DispatchPart000(method, path, hdr, body) ==
    IF ~Truthy(hdr) THEN Answer(KvError("missing X-User-Token", 401))
    ELSE IF path = ApiNotes /\ method = "GET" THEN Goto("kvList", <<>>)
    ELSE IF path = ApiNotes /\ method = "POST" THEN KvCreateEntry(body)
    ELSE IF UuidMatch(path) /\ method = "PUT" THEN Goto("kvUpdateGet", UuidGroup(path))
    ELSE IF UuidMatch(path) /\ method = "DELETE" THEN Goto("kvDelete", UuidGroup(path))
    ELSE IF startsWith(path, ApiPrefix)
         THEN Answer(KvError("no such API route or method not allowed", 404))
    ELSE Answer(KvError("resource not found", 404))

\* notes.js: the switch inside try, shared by onRequest and handleRequest
SqlSwitch(method, noteId, body) ==
    IF method = "GET" THEN Goto("sqlSelect", noteId)
    ELSE IF method = "POST" THEN
        IF ~body.ok THEN Answer(SqlError(<<"Database error: ", "SyntaxError">>, 500))
        ELSE Goto("sqlInsert", noteId)
    ELSE IF method = "PUT" THEN
        IF noteId = <<>> THEN Answer(SqlError(<<"Missing note ID for update.">>, 400))
        ELSE IF ~body.ok THEN Answer(SqlError(<<"Database error: ", "SyntaxError">>, 500))
        ELSE Goto("sqlUpdate", noteId)
    ELSE IF method = "DELETE" THEN
        IF noteId = <<>> THEN Answer(SqlError(<<"Missing note ID for deletion.">>, 400))
        ELSE Goto("sqlDelete", noteId)
    ELSE Answer(SqlError(<<"Method ", method, " not allowed.">>, 405))

\* notes.js onRequest(context)
DispatchPages(method, path, hdr, body) ==
    IF ~Truthy(hdr)
    THEN Answer(SqlError(<<"Missing X-User-Session header. User must be initialized.">>, 401))
    ELSE SqlSwitch(method, ParamsNote(path), body)

\* notes.js handleRequest(request, env)
DispatchD1Worker(method, path, hdr, body) ==
    IF ~D1Match(path) THEN Answer(PassThrough)
    ELSE IF ~Truthy(hdr)
    THEN Answer(SqlError(<<"Missing X-User-Session header. User must be initialized.">>, 401))
    ELSE SqlSwitch(method, D1Group(path), body)

Dispatch(v, method, path, hdr, body) ==
    IF v = "worker" THEN DispatchWorker(method, path, hdr, body)
    ELSE IF v = "part000" THEN DispatchPart000(method, path, hdr, body)
    ELSE IF v = "pages" THEN DispatchPages(method, path, hdr, body)
    ELSE DispatchD1Worker(method, path, hdr, body)

\* the paths the platform hands to each entry point
PathsOf(v) == IF v = "pages" THEN {p \in Paths : startsWith(p, ApiNotes)} ELSE Paths

\* the handler calls request.json(): at dispatch, or after the first get
ReadsBody(v, method, path, hdr) ==
    \/ Dispatch(v, method, path, hdr, Malformed) # Dispatch(v, method, path, hdr, NoBody)
    \/ Dispatch(v, method, path, hdr, NoBody).pc = "kvUpdateGet"

\* the request bodies that differ for the handler: a body that is never read
\* is left out, and worker.js / part_000 destructure { content } alone
BodiesOf(v, method, path, hdr) ==
    IF ~ReadsBody(v, method, path, hdr) THEN {NoBody}
    ELSE IF v \in KvVariants THEN {b \in Bodies : b.title = Undef}
    ELSE Bodies

\* Dispatching reads nothing but the request: its answers, tabulated once
Requests == [v \in Variants |-> [m \in Methods |-> [p \in PathsOf(v) |->
                [h \in Headers |-> BodiesOf(v, m, p, h)]]]]
Dispatched == [v \in Variants |-> [m \in Methods |-> [p \in PathsOf(v) |->
                [h \in Headers |-> [b \in Requests[v][m][p][h] |->
                    Dispatch(v, m, p, h, b)]]]]]

\* a request that another request overlaps is no longer alone
Overlapped(r) == [r EXCEPT !.alone = FALSE, !.after = <<>>]

\* A request arrives and runs up to its first backend call.
\* A request that is answered without any backend call reads and writes
\* nothing shared, and a request of notes.js makes exactly one backend call, a
\* single SQL statement: their steps commute with the arrival of other
\* requests, so the model lets them arrive only when no request is in flight.
\* The handlers of worker.js and part_000 make several calls and interleave.
Arrive(method, path, hdr, body) ==
    LET d == Dispatched[variant][method][path][hdr][body]
        succeeded == /\ reqs = <<>> /\ last # <<>> /\ d.pc # "done"
                     /\ last[1].alone /\ last[1].resp.status \in {200, 201}
        r == Request(d.pc, method, path, hdr, d.noteId, body, reqs = <<>>,
                     IF succeeded THEN <<Digest(last[1])>> ELSE <<>>)
    IN /\ (d.pc = "done" \/ variant \notin KvVariants) => reqs = <<>>
       /\ IF d.pc = "done"
          THEN last' = <<Summary(r, d.resp, FALSE)>> /\ reqs' = reqs
          ELSE /\ last' = <<>>
               /\ reqs' = Append([k \in 1..Len(reqs) |-> Overlapped(reqs[k])], r)

Receive ==
    /\ Len(reqs) < MaxReq
    /\ \E method \in Methods, hdr \in Headers, path \in PathsOf(variant) :
         \E body \in Requests[variant][method][path][hdr] :
            Arrive(method, path, hdr, body)
    /\ UNCHANGED <<variant, kv, db, now, owner>>

\* ------------------------------------------------------------------ JSON
\* JSON.stringify drops a property whose value is undefined; JSON.parse (and
\* destructuring) reads a dropped property back as undefined.
Omitted == [t |-> "omitted", v |-> ""]
Wire(x) == IF x = Undef THEN Omitted ELSE x
Unwire(x) == IF x = Omitted THEN Undef ELSE x
JSONstringify(n) == [id |-> n.id, content |-> Wire(n.content),
                     createdAt |-> n.createdAt, updatedAt |-> n.updatedAt]
JSONparse(j) == [id |-> j.id, content |-> Unwire(j.content),
                 createdAt |-> j.createdAt, updatedAt |-> j.updatedAt]

Orders(S) == {f \in [1..Cardinality(S) -> S] :
                \A a, b \in 1..Cardinality(S) : a # b => f[a] # f[b]}

Touch(r) == [r EXCEPT !.touched = TRUE]
At(i, pc) == i \in DOMAIN reqs /\ reqs[i].pc = pc
Unused == {u \in UUIDs : owner[u] = NullHeader}

\* ------------------------------------------------------ KV handler steps
\* env.NOTES_KV.list({prefix}) resolves; with no key the loop is skipped
KvListScan(i) ==
    LET r == Touch(reqs[i])
        found == {k \in AllKeys : kv[k] # NoNote /\ startsWith(k, PrefixOf(r.userId))}
    IN /\ At(i, "kvList")
       /\ \E ks \in Orders(found) :
            IF found = {}
            THEN Finish(i, r, Response(200, "notes", <<>>, <<>>), FALSE)
            ELSE Suspend(i, [r EXCEPT !.pc = "kvListGet", !.keys = ks])
       /\ UNCHANGED <<variant, kv, db, now, owner>>

\* one iteration of the loop: get(key.name), push the parsed value if any
KvListGet(i) ==
    LET r == reqs[i]
        noteContent == kv[Head(r.keys)]
        notes == IF noteContent # NoNote
                 THEN Append(r.acc, JSONstringify(JSONparse(noteContent)))
                 ELSE r.acc
    IN /\ At(i, "kvListGet")
       /\ IF Len(r.keys) = 1
          THEN Finish(i, r, Response(200, "notes", <<>>, notes), FALSE)
          ELSE Suspend(i, [r EXCEPT !.keys = Tail(r.keys), !.acc = notes])
       /\ UNCHANGED <<variant, kv, db, now, owner>>

\* noteId = randomUUID(), timestamp = Date.now(), put(key, JSON) resolves
KvCreatePut(i) ==
    LET r == Touch(reqs[i])
    IN /\ At(i, "kvCreatePut")
       /\ \E noteId \in Unused, timestamp \in now..MaxTime :
            LET newNote == [id |-> noteId, content |-> r.body.content,
                            createdAt |-> timestamp, updatedAt |-> timestamp]
            IN /\ kv' = [kv EXCEPT ![KeyOf(r.userId, noteId)] = JSONstringify(newNote)]
               /\ owner' = [owner EXCEPT ![noteId] = r.userId]
               /\ now' = timestamp
               /\ Finish(i, r, Response(201, "note", <<>>, <<JSONstringify(newNote)>>), FALSE)
       /\ UNCHANGED <<variant, db>>

\* get(key) resolves; 404 if null, else parse, read the body, build updatedNote
KvUpdateGet(i) ==
    LET r == Touch(reqs[i])
        existingNoteJSON == kv[KeyOf(r.userId, r.noteId)]
    IN /\ At(i, "kvUpdateGet")
       /\ IF existingNoteJSON = NoNote
          THEN Finish(i, r, KvError("note to update not found", 404), FALSE)
               /\ now' = now
          ELSE IF ~r.body.ok
          THEN Finish(i, r, Unhandled("SyntaxError"), FALSE) /\ now' = now
          ELSE \E t \in now..MaxTime :
                 LET existingNote == JSONparse(existingNoteJSON)
                     updatedNote == [existingNote EXCEPT
                         !.content = Coalesce(r.body.content, existingNote.content),
                         !.updatedAt = t]
                 IN /\ now' = t
                    /\ Suspend(i, [r EXCEPT !.pc = "kvUpdatePut", !.existing = <<updatedNote>>])
       /\ UNCHANGED <<variant, kv, db, owner>>

\* put(key, JSON.stringify(updatedNote)) resolves
KvUpdatePut(i) ==
    LET r == reqs[i]
    IN /\ At(i, "kvUpdatePut")
       /\ kv' = [kv EXCEPT ![KeyOf(r.userId, r.noteId)] = JSONstringify(r.existing[1])]
       /\ Finish(i, r, Response(200, "note", <<>>, <<JSONstringify(r.existing[1])>>), FALSE)
       /\ UNCHANGED <<variant, db, now, owner>>

\* worker.js handleDeleteNote: get(key) resolves, 404 if null
KvDeleteGet(i) ==
    LET r == Touch(reqs[i])
    IN /\ At(i, "kvDeleteGet")
       /\ IF kv[KeyOf(r.userId, r.noteId)] = NoNote
          THEN Finish(i, r, KvError("note to delete not found", 404), FALSE)
          ELSE Suspend(i, [r EXCEPT !.pc = "kvDelete"])
       /\ UNCHANGED <<variant, kv, db, now, owner>>

\* delete(key) resolves (the only backend call of part_000 handleDeleteNote)
KvDelete(i) ==
    LET r == Touch(reqs[i])
    IN /\ At(i, "kvDelete")
       /\ kv' = [kv EXCEPT ![KeyOf(r.userId, r.noteId)] = NoNote]
       /\ Finish(i, r, Response(200, "success", <<>>, <<>>), FALSE)
       /\ UNCHANGED <<variant, db, now, owner>>

\* ----------------------------------------------------- SQL handler steps
\* bind(undefined): the D1 driver rejects the value (D1_TYPE_ERROR)
Bindable(x) == x # Undef
TypeError == SqlError(<<"Database error: ", "D1_TYPE_ERROR">>, 500)

Row(id, user, title, content, created) ==
    [id |-> id, user_session_id |-> user, title |-> title,
     content |-> content, created_at |-> created]
\* SELECT id, title, content, created_at ; JSON.stringify(results)
Projected(row) == [id |-> row.id, title |-> Wire(row.title),
                   content |-> Wire(row.content), created_at |-> row.created_at]

\* SELECT ... WHERE user_session_id = ? ORDER BY created_at DESC
SqlSelect(i) ==
    LET r == Touch(reqs[i])
        rows == {row \in db : row.user_session_id = r.userId}
    IN /\ At(i, "sqlSelect")
       /\ \E results \in Orders(rows) :
            /\ \A a, b \in 1..Len(results) :
                 a < b => results[a].created_at >= results[b].created_at
            /\ Finish(i, r, Response(200, "notes", <<>>,
                        [k \in 1..Len(results) |-> Projected(results[k])]), FALSE)
       /\ UNCHANGED <<variant, kv, db, now, owner>>

\* INSERT INTO notes (id, user_session_id, title, content, created_at)
SqlInsert(i) ==
    LET r == Touch(reqs[i])
        title == r.body.title
        content == r.body.content
    IN /\ At(i, "sqlInsert")
       /\ \E newId \in Unused, timestamp \in now..MaxTime :
            /\ owner' = [owner EXCEPT ![newId] = r.userId]
            /\ now' = timestamp
            /\ IF ~Bindable(content)
               THEN db' = db /\ Finish(i, r, TypeError, TRUE)
               ELSE /\ db' = db \cup {Row(newId, r.userId, OrElse(title, Placeholder),
                                          content, timestamp)}
                    /\ Finish(i, r, Response(201, "note", <<>>,
                           <<[id |-> newId, title |-> Wire(title),
                              content |-> Wire(content), created_at |-> timestamp]>>), FALSE)
       /\ UNCHANGED <<variant, kv>>

\* UPDATE notes SET title = ?, content = ? WHERE id = ? AND user_session_id = ?
SqlUpdate(i) ==
    LET r == Touch(reqs[i])
        title == r.body.title
        content == r.body.content
        hit == Matching(r.noteId, r.userId)
    IN /\ At(i, "sqlUpdate")
       /\ IF ~Bindable(content)
          THEN db' = db /\ Finish(i, r, TypeError, TRUE)
          ELSE /\ db' = (db \ hit) \cup
                      {[row EXCEPT !.title = OrElse(title, Placeholder),
                                   !.content = content] : row \in hit}
               /\ IF Cardinality(hit) = 0
                  THEN Finish(i, r, SqlError(<<"Note not found or you do not own this note.">>, 404), FALSE)
                  ELSE Finish(i, r, Response(200, "message", <<"Note updated successfully">>, <<>>), FALSE)
       /\ UNCHANGED <<variant, kv, now, owner>>

\* DELETE FROM notes WHERE id = ? AND user_session_id = ?
SqlDelete(i) ==
    LET r == Touch(reqs[i])
        hit == Matching(r.noteId, r.userId)
    IN /\ At(i, "sqlDelete")
       /\ db' = db \ hit
       /\ IF Cardinality(hit) = 0
          THEN Finish(i, r, SqlError(<<"Note not found or you do not own this note.">>, 404), FALSE)
          ELSE Finish(i, r, Response(200, "message", <<"Note deleted successfully">>, <<>>), FALSE)
       /\ UNCHANGED <<variant, kv, now, owner>>

\* --------------------------------------------------------- backend fault
\* The backend call a request is suspended on throws.  worker.js and
\* part_000 have no try/catch; notes.js catches and answers with
\* `Database error: ${error.message}`.
BackendFault(i, text) ==
    LET r == Touch(reqs[i])
    IN /\ i \in DOMAIN reqs
       /\ IF variant \in KvVariants
          THEN Finish(i, r, Unhandled(text), TRUE)
          ELSE Finish(i, r, SqlError(<<"Database error: ", text>>, 500), TRUE)
       /\ UNCHANGED <<variant, kv, db, now, owner>>

Next ==
    \/ Receive
    \/ \E i \in 1..MaxReq : KvListScan(i)
    \/ \E i \in 1..MaxReq : KvListGet(i)
    \/ \E i \in 1..MaxReq : KvCreatePut(i)
    \/ \E i \in 1..MaxReq : KvUpdateGet(i)
    \/ \E i \in 1..MaxReq : KvUpdatePut(i)
    \/ \E i \in 1..MaxReq : KvDeleteGet(i)
    \/ \E i \in 1..MaxReq : KvDelete(i)
    \/ \E i \in 1..MaxReq : SqlSelect(i)
    \/ \E i \in 1..MaxReq : SqlInsert(i)
    \/ \E i \in 1..MaxReq : SqlUpdate(i)
    \/ \E i \in 1..MaxReq : SqlDelete(i)
    \/ \E i \in 1..MaxReq, text \in ErrTexts : BackendFault(i, text)

Spec == Init /\ [][Next]_vars

TypeOK ==
    /\ variant \in Variants
    /\ now \in 1..MaxTime
    /\ owner \in [UUIDs -> Headers]
    /\ Len(reqs) <= MaxReq /\ Len(last) <= 1

\* ============================================================== claims
Falsy == {NullHeader, <<>>}
Completed == last # <<>>
Done == last[1]
\* what an update must leave alone: everything but content and updatedAt
Framed(s, id) ==
    IF variant \in KvVariants
    THEN {<<n.id, n.createdAt>> : n \in Stored(s, id)}
    ELSE {<<n.id, n.user_session_id, n.title, n.created_at>> : n \in Stored(s, id)}
\* request i takes the step: it moves on, or it ends
Took(i) == \/ Len(reqs') = Len(reqs) /\ reqs'[i] # reqs[i]
           \/ Len(reqs') < Len(reqs) /\ reqs' = Remove(reqs, i)

\* C1: a List under one scope never returns a note that a Create under
\* another scope made.
C1_ListIsolation ==
    (Completed /\ Done.method = "GET" /\ Done.resp.kind = "notes")
        => \A k \in 1..Len(Done.resp.notes) :
              owner[Done.resp.notes[k].id] = Done.userId

\* C2: a step of an Update or Delete request under scope s2 leaves every
\* record stored under any other scope s1 unchanged, whatever id it names and
\* however the requests interleave.
C2_CrossScopeFrame ==
    [][\A i \in DOMAIN reqs :
          (Took(i) /\ reqs[i].method \in {"PUT", "DELETE"})
              => \A s1 \in Scopes \ {reqs[i].userId}, id \in UUIDs :
                    Stored(s1, id)' = Stored(s1, id)]_vars

\* an Update or Delete has named the id of a note that another scope made
\* and still holds
C2_Witness ==
    /\ Completed /\ Done.method \in {"PUT", "DELETE"} /\ Done.touched
    /\ \E s1 \in Scopes \ {Done.userId} :
          owner[Done.noteId] = s1 /\ Exists(s1, Done.noteId)

\* C3: an Update or Delete under s2 against the id of a note that exists
\* under another scope s1 is answered 404.
C3_CrossScopeNotFound ==
    (/\ Completed /\ Done.method \in {"PUT", "DELETE"}
     /\ Done.touched /\ ~Done.fault
     /\ \E s1 \in Scopes \ {Done.userId} : Exists(s1, Done.noteId))
        => Done.resp.status = 404

\* C4: the Delete of a note right after its Create answers 200, and a Delete
\* of the same (scope, id) right after a Delete that found the note and
\* answered 200 answers 404.
C4_DeleteTwice ==
    (/\ Completed /\ Done.method = "DELETE" /\ Done.alone /\ ~Done.fault
     /\ Done.after # <<>> /\ Done.after[1].userId = Done.userId)
        => /\ (/\ Done.after[1].method = "POST" /\ Done.after[1].status = 201
               /\ Done.after[1].notes[1].id = Done.noteId)
                  => Done.resp.status = 200
           /\ (/\ Done.after[1].method = "DELETE" /\ Done.after[1].status = 200
               /\ Done.after[1].existed /\ Done.after[1].noteId = Done.noteId)
                  => Done.resp.status = 404

\* C5: a request with no identity header, or an empty one, on a path under
\* the API prefix is answered 401, whatever its method.
C5_Unauthenticated ==
    (Completed /\ Done.userId \in Falsy /\ startsWith(Done.path, ApiPrefix))
        => Done.resp.status = 401

\* C6: no request with an absent or empty identity header ever reaches a
\* backend call, and no stored record has an empty scope.
C6_NoBackendWithoutScope ==
    /\ \A i \in DOMAIN reqs : reqs[i].userId \notin Falsy
    /\ (Completed /\ Done.touched) => Done.userId \notin Falsy
    /\ \A k \in AllKeys : startsWith(k, <<"n","o","t","e","s",":",":">>) => kv[k] = NoNote
    /\ \A row \in db : row.user_session_id \notin Falsy

\* a Create with no identity has been answered while the store holds a note
C6_Witness ==
    /\ Completed /\ Done.userId \in Falsy /\ ~Done.touched
    /\ Done.method = "POST" /\ Done.path = ApiNotes
    /\ \E u \in UUIDs : Exists(owner[u], u)

\* C7: an Update under the owning scope of an existing note that supplies
\* only a new content string and is answered 200 changes nothing of the
\* stored record but its content (and updatedAt): id, scope, title and
\* creation time stay.
C7_UpdateOnlyContent ==
    [][\A i \in DOMAIN reqs, s \in Scopes, id \in UUIDs :
          (/\ Took(i) /\ reqs[i].method = "PUT"
           /\ s = reqs[i].userId /\ id = reqs[i].noteId /\ Exists(s, id)
           /\ reqs[i].body.title = Undef /\ typeof(reqs[i].body.content) = "string"
           /\ last' # <<>> /\ last'[1].resp.status = 200)
              => Framed(s, id)' = Framed(s, id)]_vars

\* C8: a Create on the collection path whose body has no content, or a
\* content that is not a string, is answered 400 and writes nothing.
C8_CreateValidates ==
    [][(/\ last' # <<>> /\ ~last'[1].fault
        /\ last'[1].method = "POST" /\ last'[1].path = ApiNotes
        /\ last'[1].userId \notin Falsy
        /\ last'[1].body.ok /\ typeof(last'[1].body.content) # "string")
           => (last'[1].resp.status = 400 /\ kv' = kv /\ db' = db)]_vars

\* C9: a request whose backend call failed is answered 500 with a message
\* that holds nothing of the backend's error text.
BackendTexts == ErrTexts \cup {"D1_TYPE_ERROR"}
C9_FaultsUniform ==
    (Completed /\ Done.fault)
        => /\ Done.resp.status = 500
           /\ \A k \in 1..Len(Done.resp.msg) : Done.resp.msg[k] \notin BackendTexts

\* C10: a List right after a successful Create under the same scope answers
\* 200 and holds the note the Create returned, field for field, exactly once.
C10_CreateThenList ==
    (/\ Completed /\ Done.method = "GET" /\ Done.alone /\ ~Done.fault
     /\ Done.after # <<>> /\ Done.after[1].userId = Done.userId
     /\ Done.after[1].method = "POST" /\ Done.after[1].status = 201)
        => /\ Done.resp.status = 200
           /\ Cardinality({k \in 1..Len(Done.resp.notes) :
                    Done.resp.notes[k].id = Done.after[1].notes[1].id}) = 1
           /\ \E k \in 1..Len(Done.resp.notes) :
                    Done.resp.notes[k] = Done.after[1].notes[1]

\* the collection path, or an item path
NotesShape(path) == path = ApiNotes \/ UuidMatch(path)
Supported(method, path) ==
    \/ path = ApiNotes /\ method \in {"GET", "POST"}
    \/ UuidMatch(path) /\ method \in {"PUT", "DELETE"}

\* C11: the key/value handlers and the relational handlers answer a request
\* on the notes resource with the same status: whatever a handler of one
\* backend answers before any backend call, every handler of the other
\* backend that answers before any backend call answers with the same status.
C11_SameStatus ==
    (Completed /\ ~Done.touched /\ NotesShape(Done.path))
        => \A v \in Variants :
              ((v \in KvVariants) # (variant \in KvVariants)) =>
                LET d == Dispatch(v, Done.method, Done.path, Done.userId, Done.body)
                IN d.pc = "done" => d.resp.status = Done.resp.status

\* C12: a request with an identity whose verb the path shape does not
\* support (not GET/POST on the collection, not PUT/DELETE on an item) is
\* answered 405 and makes no backend call.
C12_MethodNotAllowed ==
    (/\ Completed /\ Done.userId \notin Falsy
     /\ NotesShape(Done.path) /\ ~Supported(Done.method, Done.path))
        => Done.resp.status = 405 /\ ~Done.touched

\* C13: a request whose path is outside the API prefix is answered with the
\* "not handled" sentinel, whatever its method and identity header.
C13_PassThrough ==
    (Completed /\ ~startsWith(Done.path, ApiPrefix)) => Done.resp = PassThrough

\* what each handler answers an Update or Delete that finds no record
Absent(v, method, body) ==
    IF v \in KvVariants THEN
        IF method = "PUT" THEN KvError("note to update not found", 404)
        ELSE IF v = "worker" THEN KvError("note to delete not found", 404)
        ELSE Response(200, "success", <<>>, <<>>)
    ELSE IF method = "PUT" /\ ~body.ok
         THEN SqlError(<<"Database error: ", "SyntaxError">>, 500)
    ELSE SqlError(<<"Note not found or you do not own this note.">>, 404)

\* C14: an Update or Delete under scope s2 for an id that s2 never held gets
\* one and the same response (status and body) whether no scope holds a note
\* with that id or another scope s1 does: the answer tells nothing of s1.
C14_NoExistenceLeak ==
    (/\ Completed /\ Done.method \in {"PUT", "DELETE"} /\ ~Done.fault
     /\ Done.userId \in Scopes /\ Done.noteId \in UUIDs
     /\ owner[Done.noteId] # Done.userId)
        => Done.resp = Absent(variant, Done.method, Done.body)

\* an Update with a well-formed body, or a Delete, has been answered for an
\* id under which another scope holds a note at that moment
C14_Witness ==
    /\ Completed /\ Done.method \in {"PUT", "DELETE"} /\ ~Done.fault
    /\ Done.userId \in Scopes /\ Done.noteId \in UUIDs /\ Done.body.ok
    /\ owner[Done.noteId] \in Scopes \ {Done.userId}
    /\ Exists(owner[Done.noteId], Done.noteId)
    /\ Done.resp = Absent(variant, Done.method, Done.body)

\* C15: in the key/value handlers an Update that another request has
\* overlapped and that has read its record puts without any check: it is
\* answered 200 with the note it built, and the record stored afterwards is
\* exactly that note (the content of its body, its updatedAt), whatever
\* another Update that read the same record has written in between.
C15_LaterPutWins ==
    [][\A i \in DOMAIN reqs, s \in Scopes, id \in UUIDs :
          (/\ Took(i) /\ reqs[i].pc = "kvUpdatePut" /\ ~reqs[i].alone
           /\ s = reqs[i].userId /\ id = reqs[i].noteId
           /\ last' # <<>> /\ ~last'[1].fault)
              => /\ last'[1].resp.status = 200
                 /\ last'[1].resp.notes = <<JSONstringify(reqs[i].existing[1])>>
                 /\ Stored(s, id)' = {JSONstringify(reqs[i].existing[1])}
                 /\ typeof(reqs[i].body.content) = "string"
                      => \A n \in Stored(s, id)' : n.content = reqs[i].body.content]_vars

\* two Updates of one note have both read it; the first has just put its
\* content and been answered 200, the second is about to put another content
C15_Witness ==
    /\ Completed /\ Done.method = "PUT" /\ Done.resp.status = 200 /\ ~Done.alone
    /\ variant \in KvVariants
    /\ \A n \in Stored(Done.userId, Done.noteId) : n.content = Done.body.content
    /\ \E j \in DOMAIN reqs :
          /\ reqs[j].pc = "kvUpdatePut"
          /\ reqs[j].userId = Done.userId /\ reqs[j].noteId = Done.noteId
          /\ typeof(reqs[j].body.content) = "string"
          /\ reqs[j].body.content # Done.body.content

\* C16: once a Delete of a note that a Create under the scope made has been
\* answered 200 the store holds no record for (scope, id), and the step that
\* follows does not bring one back, whatever Update of the note is in flight.
C16_DeletePermanent ==
    [][\A s \in Scopes, id \in UUIDs :
          (/\ Completed /\ Done.method = "DELETE" /\ Done.resp.status = 200
           /\ Done.userId = s /\ Done.noteId = id /\ owner[id] = s)
              => ~Exists(s, id) /\ ~Exists(s, id)']_vars

\* C17: every record the backend holds has a content that is a string.
C17_ContentIsString ==
    \A s \in Scopes, id \in UUIDs :
        \A n \in Stored(s, id) : typeof(Unwire(n.content)) = "string"

\* the ids of the notes that scope s holds under its own keys
HeldBy(s) == {u \in UUIDs : owner[u] = s /\ Exists(s, u)}

\* C18: a List of the key/value handlers that no backend call failed is
\* answered 200 whatever Creates and Deletes it interleaves with; every
\* element of its result is a note (never an empty entry) that a Create
\* under the List's own scope stored; and a List that no request overlapped
\* returns every note its scope holds.
C18_ListUnderWrites ==
    (/\ Completed /\ variant \in KvVariants /\ ~Done.fault
     /\ Done.method = "GET" /\ Done.touched)
        => /\ Done.resp.status = 200
           /\ \A k \in 1..Len(Done.resp.notes) :
                 /\ Done.resp.notes[k].id \in UUIDs
                 /\ owner[Done.resp.notes[k].id] = Done.userId
           /\ Done.alone =>
                 \A u \in HeldBy(Done.userId) :
                    \E k \in 1..Len(Done.resp.notes) : Done.resp.notes[k].id = u
====
